---- MODULE Spec2Model ----
(***************************************************************************)
(* Role-scoped notification system: the Notification table, the three API  *)
(* handlers (GET /api/notifications, POST /api/notifications,              *)
(* POST /api/notifications/[id]/dismiss) and their await points, and the   *)
(* NotificationPanel client script that polls and dismisses through them.  *)
(*                                                                         *)
(* A handler runs atomically between two awaits on the database; the       *)
(* statements the database executes (select, insert, update) are atomic.   *)
(* Several handlers may be suspended at an await at the same time.         *)
(***************************************************************************)
EXTENDS Integers, Sequences, FiniteSets, Bags, TLC

VARIABLES
    store,   \* the Notification table: the rows in insertion order
    req,     \* the handlers suspended at an await, by request slot
    resp,    \* what the step just taken did: the handler step and its HTTP response
    now,     \* the latest value new Date() has returned
    calls,   \* the number of requests that reached a store write so far
    acked,   \* history: the <<id, userId>> of every dismiss answered 200
    isOpen,        \* NotificationPanel.isOpen
    attrs,         \* the open class of the panel, the active class of the overlay,
                   \* aria-expanded of the bell
    notifications, \* NotificationPanel.notifications, the in-memory list
    display,       \* style.display of the loading, error, empty and list elements
    badge,         \* the count badge as the last updateBadge left it
    items,         \* the children of the list element, in document order
    loads,         \* the loadNotifications calls suspended at their fetch
    dismissals,    \* the dismissNotification calls suspended at their fetch or timer
    removed        \* history: the ids the removal timer has taken off the list

\* the variables of the client panel
cvars ==
    <<isOpen, attrs, notifications, display, badge, items, loads, dismissals, removed>>

vars == <<store, req, resp, now, calls, acked,
          isOpen, attrs, notifications, display, badge, items, loads, dismissals,
          removed>>

-----------------------------------------------------------------------------
(* Bounds *)

\* requests that may be suspended at an await at the same time
MaxInFlight == 2
\* requests that get as far as a store write in one behaviour
MaxCalls == 2

\* loadNotifications and dismissNotification calls that may be suspended at a
\* fetch or a timer at the same time
MaxPending == 2

Slots == 1..MaxInFlight

-----------------------------------------------------------------------------
(* Values *)

\* SQL NULL / JavaScript null for the optional userId column
Null == "null"

\* the user ids of db/seed.ts (the User table)
Users == {"user-1", "user-2"}

\* validRoles with one more entry
validRoles_WithGuest == {"admin", "editor", "user", "all", "guest"}

validRoles == {"admin", "editor", "user", "all"}

\* the GET queries tried: every user with three roles, and a missing parameter
ListQueries ==
    [userId : Users, role : {"admin", "editor", "user"}]
        \cup {[userId |-> "", role |-> "admin"], [userId |-> "user-1", role |-> ""]}

Body(title, message, role, userId, currentUserRole) ==
    [title |-> title, message |-> message, role |-> role, userId |-> userId,
     currentUserRole |-> currentUserRole]

\* the create bodies tried: valid ones by an admin (broadcast and targeted), one
\* for each missing field, an unknown role, and requests by a non-admin
CreateBodies ==
    { Body("T", "M", "all", "", "admin"),
      Body("T", "M", "admin", "", "admin"),
      Body("T", "M", "user", "user-2", "admin"),
      Body("", "M", "all", "", "admin"),
      Body("T", "", "all", "", "admin"),
      Body("T", "M", "", "", "admin"),
      Body("T", "M", "guest", "", "admin"),
      Body("T", "M", "all", "", "editor"),
      Body("", "", "guest", "", "user") }

\* no create body: the step was not a create call
NoBody == Body("", "", "", "", "")

Range(s) == {s[i] : i \in 1..Len(s)}

-----------------------------------------------------------------------------
(* parseInt on the [id] route parameter, a sequence of characters *)

DigitVal ==
    [c \in {"0", "1", "2", "3", "4", "5", "6", "7", "8", "9"} |->
        CASE c = "0" -> 0 [] c = "1" -> 1 [] c = "2" -> 2 [] c = "3" -> 3
          [] c = "4" -> 4 [] c = "5" -> 5 [] c = "6" -> 6 [] c = "7" -> 7
          [] c = "8" -> 8 [] c = "9" -> 9]

IsDigit(c) == c \in DOMAIN DigitVal

\* the length of the longest prefix of s made of digits
RECURSIVE DigitPrefixLen(_)
DigitPrefixLen(s) ==
    IF s = <<>> \/ ~IsDigit(Head(s)) THEN 0 ELSE 1 + DigitPrefixLen(Tail(s))

\* the value of a sequence of digits, base 10
RECURSIVE DigitsValue(_, _)
DigitsValue(s, acc) ==
    IF s = <<>> THEN acc ELSE DigitsValue(Tail(s), 10 * acc + DigitVal[Head(s)])

NaN == [kind |-> "NaN", val |-> 0]
NullId == [kind |-> "null", val |-> 0]
Num(n) == [kind |-> "number", val |-> n]

\* parseInt(text): an optional sign, then the leading digits; NaN when there are none
ParseInt(s) ==
    LET neg == s # <<>> /\ Head(s) = "-"
        body == IF s # <<>> /\ Head(s) \in {"-", "+"} THEN Tail(s) ELSE s
        k == DigitPrefixLen(body)
    IN  IF k = 0 THEN NaN
        ELSE LET v == DigitsValue(SubSeq(body, 1, k), 0)
             IN  Num(IF neg THEN 0 - v ELSE v)

\* const notificationId = params.id ? parseInt(params.id) : null
NotificationIdOf(param) == IF param = <<>> THEN NullId ELSE ParseInt(param)

\* !notificationId: null, NaN and 0 are falsy
FalsyId(nid) == nid.kind # "number" \/ nid.val = 0

\* the [id] route parameters tried: missing, zero, not a number, a number
\* followed by text, ids of seed rows, the id of the first created row, an id
\* that no row has
IdParams ==
    { <<>>, <<"0">>, <<"x">>, <<"1", "x">>,
      <<"1">>, <<"4">>, <<"6">>, <<"9", "9">> }

\* the dismiss requests tried: every parameter with every user, and one
\* without a userId
DismissRequests ==
    [param : IdParams, userId : Users] \cup {[param |-> <<"1">>, userId |-> ""]}

-----------------------------------------------------------------------------
(* The Notification table *)

Row(id, userId, title, role, message, dismissed, createdAt) ==
    [id |-> id, userId |-> userId, title |-> title, role |-> role,
     message |-> message, dismissed |-> dismissed, createdAt |-> createdAt]

\* undefined: the first element of an empty result
NoRow == Row(0, Null, "", "", "", <<>>, 0)

\* db/seed.ts: the five sample notifications (createdAt as the rank of the date)
SeedNotifications ==
    << Row(1, Null, "T", "admin", "M", <<>>, 1),
       Row(2, Null, "T", "editor", "M", <<>>, 2),
       Row(3, Null, "T", "all", "M", <<>>, 3),
       Row(4, "user-1", "T", "admin", "M", <<>>, 4),
       Row(5, Null, "T", "editor", "M", <<>>, 5) >>

\* the date of the latest seed row
SeedNow == SeedNotifications[Len(SeedNotifications)].createdAt

Ids(rows) == {rows[i].id : i \in 1..Len(rows)}

-----------------------------------------------------------------------------
(* GET /api/notifications *)

\* WhereClause without its second or(...): the audience test left out
WhereClause_NoAudience(n, userId, userRole) ==
    n.role = userRole \/ n.role = "all"

\* the where(and(or(role = userRole, role = 'all'), or(userId is null, userId = userId)))
WhereClause(n, userId, userRole) ==
    /\ (n.role = userRole \/ n.role = "all")
    /\ (n.userId = Null \/ n.userId = userId)

\* OrderByCreatedAtDesc with the direction reversed (ASC)
RECURSIVE OrderByCreatedAtDesc_Ascending(_)
OrderByCreatedAtDesc_Ascending(S) ==
    IF S = {} THEN {<<>>}
    ELSE UNION { { <<x>> \o t : t \in OrderByCreatedAtDesc_Ascending(S \ {x}) } :
                 x \in {y \in S : \A z \in S : y.createdAt <= z.createdAt} }

\* ORDER BY createdAt DESC over a set of rows: every order the statement may
\* return them in (rows of equal createdAt in any order)
RECURSIVE OrderByCreatedAtDesc(_)
OrderByCreatedAtDesc(S) ==
    IF S = {} THEN {<<>>}
    ELSE UNION { { <<x>> \o t : t \in OrderByCreatedAtDesc(S \ {x}) } :
                 x \in {y \in S : \A z \in S : y.createdAt >= z.createdAt} }

\* Array.isArray(notification.dismissed) ? notification.dismissed : []
DismissedUsers(n) == n.dismissed

\* Includes with a scan that starts one element late
Includes_SkipFirst(arr, x) == \E i \in 2..Len(arr) : arr[i] = x

\* dismissedUsers.includes(userId)
Includes(arr, x) == \E i \in 1..Len(arr) : arr[i] = x

\* NotDismissedBy that keeps every row
NotDismissedBy_Always(n, userId) == TRUE

\* the filter callback: keep what this user has not dismissed
NotDismissedBy(n, userId) == ~Includes(DismissedUsers(n), userId)

\* notifications.filter(...)
ActiveNotifications(rows, userId) ==
    SelectSeq(rows, LAMBDA n : NotDismissedBy(n, userId))

\* the rows the select statement matches
Matching(table, userId, userRole) ==
    {table[i] : i \in {j \in 1..Len(table) : WhereClause(table[j], userId, userRole)}}

Blank ==
    [op |-> "none", step |-> "", status |-> 0, id |-> 0, userId |-> "",
     role |-> "", notifications |-> <<>>, count |-> 0, notification |-> NoRow,
     success |-> FALSE, updates |-> 0, wasIn |-> FALSE, replaced |-> <<>>,
     body |-> NoBody, param |-> <<>>, threw |-> FALSE]

\* GetResponse with count taken from the rows before the filter
GetResponse_CountAll(rows, userId, userRole) ==
    LET active == ActiveNotifications(rows, userId)
    IN  [Blank EXCEPT !.op = "list", !.step = "call", !.status = 200,
                      !.userId = userId, !.role = userRole,
                      !.notifications = active, !.count = Len(rows)]

\* the 200 response of GET, given the rows the select returned
GetResponse(rows, userId, userRole) ==
    LET active == ActiveNotifications(rows, userId)
    IN  [Blank EXCEPT !.op = "list", !.step = "call", !.status = 200,
                      !.userId = userId, !.role = userRole,
                      !.notifications = active, !.count = Len(active)]

\* the catch of GET: 500, no notifications
GetCatch ==
    [Blank EXCEPT !.op = "list", !.step = "call", !.status = 500, !.threw = TRUE]

\* GET: 400 when a parameter is missing, else select, filter, 200
List(userId, userRole) ==
    /\ IF userId = "" \/ userRole = ""
       THEN resp' = [Blank EXCEPT !.op = "list", !.step = "call", !.status = 400]
       ELSE \E rows \in OrderByCreatedAtDesc(Matching(store, userId, userRole)) :
                resp' = GetResponse(rows, userId, userRole)
    /\ UNCHANGED <<store, req, now, calls, acked>>

-----------------------------------------------------------------------------
(* Suspended handlers *)

Idle ==
    [op |-> "idle", id |-> 0, userId |-> "", dismissed |-> <<>>, title |-> "",
     message |-> "", role |-> "", target |-> Null, wasIn |-> FALSE]

\* a free slot, the lowest one (slots are interchangeable)
FreeSlot(s) == req[s] = Idle /\ \A t \in Slots : t < s => req[t] # Idle

-----------------------------------------------------------------------------
(* POST /api/notifications/[id]/dismiss *)

\* SelectById without its where(...): the first row of the table
SelectById_NoWhere(table, id) ==
    IF Len(table) > 1 THEN SubSeq(table, 1, 1) ELSE table

\* db.select().from(Notification).where(eq(Notification.id, notificationId)).limit(1)
SelectById(table, id) ==
    LET found == SelectSeq(table, LAMBDA n : n.id = id)
    IN  IF Len(found) > 1 THEN SubSeq(found, 1, 1) ELSE found

\* const [notification] = rows
First(rows) == IF rows = <<>> THEN NoRow ELSE rows[1]

\* AlreadyDismissed with the membership test left out
AlreadyDismissed_Never(dismissedUsers, userId) == FALSE

\* if (dismissedUsers.includes(userId)): the early 200
AlreadyDismissed(dismissedUsers, userId) == Includes(dismissedUsers, userId)

\* const updatedDismissed = [...dismissedUsers, userId]
UpdatedDismissed(dismissedUsers, userId) == Append(dismissedUsers, userId)

\* UpdateDismissed without its where(...): every row is written
UpdateDismissed_NoWhere(table, id, dismissed) ==
    [i \in 1..Len(table) |-> [table[i] EXCEPT !.dismissed = dismissed]]

\* UpdateDismissed as an append of the new user to the list the row holds now
UpdateDismissed_Append(table, id, dismissed) ==
    [i \in 1..Len(table) |->
        IF table[i].id = id
        THEN [table[i] EXCEPT !.dismissed = Append(@, dismissed[Len(dismissed)])]
        ELSE table[i]]

\* db.update(Notification).set({ dismissed }).where(eq(Notification.id, id))
UpdateDismissed(table, id, dismissed) ==
    [i \in 1..Len(table) |->
        IF table[i].id = id THEN [table[i] EXCEPT !.dismissed = dismissed]
        ELSE table[i]]

\* .returning(): the rows the update wrote
Returning(table, id) == SelectSeq(table, LAMBDA n : n.id = id)

DismissResp(step, status, id, userId) ==
    [Blank EXCEPT !.op = "dismiss", !.step = step, !.status = status,
                  !.id = id, !.userId = userId]

\* DismissCatch that swallows the error and answers as after an update
DismissCatch_Swallow(step, id, userId) ==
    [DismissResp(step, 200, id, userId) EXCEPT !.success = TRUE, !.threw = TRUE]

\* the catch of the dismiss handler: 500
DismissCatch(step, id, userId) ==
    [DismissResp(step, 500, id, userId) EXCEPT !.threw = TRUE]

\* the handler up to its second await: validation, the select, the 404 and
\* already-dismissed answers, or the update it goes on to issue
DismissCall(s, param, userId) ==
    LET nid == NotificationIdOf(param)
        notification == First(SelectById(store, nid.val))
        dismissedUsers == DismissedUsers(notification)
        wasIn == userId \in Range(notification.dismissed)
    IN  /\ FreeSlot(s)
        /\ IF FalsyId(nid) \/ userId = ""
           THEN /\ resp' = [DismissResp("call", 400, 0, userId) EXCEPT !.param = param]
                /\ UNCHANGED <<req, calls, acked>>
           ELSE IF notification = NoRow
           THEN /\ resp' = [DismissResp("call", 404, nid.val, userId) EXCEPT
                               !.param = param]
                /\ UNCHANGED <<req, calls, acked>>
           ELSE IF AlreadyDismissed(dismissedUsers, userId)
           THEN /\ resp' = [DismissResp("call", 200, nid.val, userId) EXCEPT
                               !.notification = notification, !.wasIn = wasIn,
                               !.param = param]
                /\ acked' = acked \cup {<<nid.val, userId>>}
                /\ UNCHANGED <<req, calls>>
           ELSE /\ calls < MaxCalls
                /\ req' = [req EXCEPT ![s] =
                              [Idle EXCEPT !.op = "dismiss", !.id = nid.val,
                                           !.userId = userId, !.wasIn = wasIn,
                                           !.dismissed =
                                               UpdatedDismissed(dismissedUsers, userId)]]
                /\ calls' = calls + 1
                /\ resp' = [DismissResp("call", 0, nid.val, userId) EXCEPT
                               !.wasIn = wasIn, !.param = param]
                /\ UNCHANGED acked
        /\ UNCHANGED <<store, now>>

\* the update statement and the 200 that follows it
DismissUpdate(s) ==
    LET r == req[s]
        before == First(SelectById(store, r.id))
        after == UpdateDismissed(store, r.id, r.dismissed)
    IN  /\ r.op = "dismiss"
        /\ store' = after
        /\ req' = [req EXCEPT ![s] = Idle]
        /\ resp' = [DismissResp("update", 200, r.id, r.userId) EXCEPT
                       !.success = TRUE, !.updates = 1, !.wasIn = r.wasIn,
                       !.notification = First(Returning(after, r.id)),
                       !.replaced = before.dismissed]
        /\ acked' = acked \cup {<<r.id, r.userId>>}
        /\ UNCHANGED <<now, calls>>

-----------------------------------------------------------------------------
(* POST /api/notifications *)

\* SELECT MAX(id): null on an empty table, which (maxId || 0) turns into 0
MaxId(table) ==
    IF table = <<>> THEN 0
    ELSE CHOOSE m \in Ids(table) : \A k \in Ids(table) : k <= m

\* NextId without the + 1
NextId_NoIncrement(table) == MaxId(table)

\* const nextId = (maxIdResult[0]?.maxId || 0) + 1
NextId(table) == MaxId(table) + 1

CreateResp(step, status) ==
    [Blank EXCEPT !.op = "create", !.step = step, !.status = status]

\* MissingField without the test of message
MissingField_NoMessage(title, message, role) == title = "" \/ role = ""

\* the catch of the create handler: 500
CreateCatch(step) == [CreateResp(step, 500) EXCEPT !.threw = TRUE]

\* if (!title || !message || !role)
MissingField(title, message, role) == title = "" \/ message = "" \/ role = ""

\* CreateStatus with the validation moved before the authorization check
CreateStatus_ValidateFirst(title, message, role, currentUserRole) ==
    IF MissingField(title, message, role) THEN 400
    ELSE IF role \notin validRoles THEN 400
    ELSE IF currentUserRole # "admin" THEN 403
    ELSE 0

\* the checks before the first store statement, in the handler's order: 403
\* unless the caller is an admin, 400 for a missing field, 400 for a role that
\* is not in validRoles, else 0 (go on)
CreateStatus(title, message, role, currentUserRole) ==
    IF currentUserRole # "admin" THEN 403
    ELSE IF MissingField(title, message, role) THEN 400
    ELSE IF role \notin validRoles THEN 400
    ELSE 0

\* the handler up to its second await: authorization, validation, SELECT MAX(id)
CreateCall(s, title, message, role, userId, currentUserRole) ==
    LET status == CreateStatus(title, message, role, currentUserRole)
        body == Body(title, message, role, userId, currentUserRole)
    IN  /\ FreeSlot(s)
        /\ IF status # 0
           THEN /\ resp' = [CreateResp("call", status) EXCEPT !.body = body]
                /\ UNCHANGED <<req, calls>>
           ELSE /\ calls < MaxCalls
                /\ req' = [req EXCEPT ![s] =
                              [Idle EXCEPT !.op = "create", !.id = NextId(store),
                                           !.title = title, !.message = message,
                                           !.role = role,
                                           !.target =
                                               IF userId = "" THEN Null ELSE userId]]
                /\ calls' = calls + 1
                /\ resp' = [CreateResp("call", 0) EXCEPT
                               !.id = NextId(store), !.body = body]
        /\ UNCHANGED <<store, now, acked>>

\* PrimaryKeyViolation for an id column that is no primary key
PrimaryKeyViolation_None(table, id) == FALSE

\* id: column.number({ primaryKey: true }): an insert with an id the table
\* already holds is rejected
PrimaryKeyViolation(table, id) == id \in Ids(table)

\* the insert statement: the primary key rejects an id already in the table (the
\* handler's catch answers 500), else the row is added and answered with 201
CreateInsert(s, date) ==
    LET r == req[s]
        row == Row(r.id, r.target, r.title, r.role, r.message, <<>>, date)
    IN  /\ r.op = "create"
        /\ date \in {now, now + 1}
        /\ now' = date
        /\ req' = [req EXCEPT ![s] = Idle]
        /\ IF PrimaryKeyViolation(store, r.id)
           THEN /\ store' = store
                /\ resp' = [CreateCatch("insert") EXCEPT !.id = r.id]
           ELSE /\ store' = Append(store, row)
                /\ resp' = [CreateResp("insert", 201) EXCEPT
                               !.id = r.id, !.success = TRUE, !.notification = row]
        /\ UNCHANGED <<calls, acked>>

-----------------------------------------------------------------------------
(* NotificationPanel: the state of the client script and its synchronous
   methods *)

\* bell.dataset.userId and bell.dataset.userRole of the page the panel is on
ClientUserId == "user-1"
ClientUserRole == "admin"

\* the panel without the open class, the overlay without the active class
Closed == [panel |-> FALSE, overlay |-> FALSE, expanded |-> "false"]

\* openPanel(): isOpen and the three attributes it writes
openPanel ==
    [isOpen |-> TRUE, attrs |-> [panel |-> TRUE, overlay |-> TRUE, expanded |-> "true"]]

\* closePanel that leaves the overlay active
closePanel_KeepOverlay == [isOpen |-> FALSE, attrs |-> [Closed EXCEPT !.overlay = TRUE]]

\* closePanel()
closePanel == [isOpen |-> FALSE, attrs |-> Closed]

\* togglePanel()
togglePanel(open) == IF open THEN closePanel ELSE openPanel

\* the keydown listener on the document: Escape closes an open panel
onKeydown(key, open, at) ==
    IF key = "Escape" /\ open THEN closePanel ELSE [isOpen |-> open, attrs |-> at]

\* the four state elements, all with display none
Hidden == [loading |-> "none", error |-> "none", empty |-> "none", list |-> "none"]

States == {"loading", "error", "empty", "list"}

\* showState that does not hide the loading view
showState_KeepLoading(state) ==
    [Hidden EXCEPT ![state] = IF state = "list" THEN "block" ELSE "flex",
                   !.loading = "flex"]

\* showState(state): hide all four, then show the requested one
showState(state) ==
    [Hidden EXCEPT ![state] = IF state = "list" THEN "block" ELSE "flex"]

\* the state elements that are displayed
Displayed == {v \in States : display[v] # "none"}

\* the badge before the first updateBadge
NoBadge == [text |-> "", unread |-> FALSE, count |-> -1]

\* updateBadge that shows one more than it is given
updateBadge_OneMore(count) ==
    [text |-> ToString(count + 1), unread |-> TRUE, count |-> count + 1]

\* updateBadge(count): the text, the has-notifications class, and the argument
updateBadge(count) ==
    [text |-> IF count > 99 THEN "99+" ELSE ToString(count),
     unread |-> count > 0, count |-> count]

\* createNotificationItem(notification): the article with its dismiss button
createNotificationItem(notification) ==
    [id |-> notification.id, disabled |-> FALSE, dismissing |-> FALSE]

\* renderNotifications(): innerHTML = '' and one new item for each notification
renderNotifications(list) ==
    [i \in 1..Len(list) |-> createNotificationItem(list[i])]

\* document.querySelector('[data-notification-id="id"]'): the position of the
\* first item with that id, 0 when there is none
querySelector(dom, id) ==
    IF \E i \in 1..Len(dom) : dom[i].id = id
    THEN CHOOSE i \in 1..Len(dom) : dom[i].id = id /\ \A j \in 1..(i - 1) : dom[j].id # id
    ELSE 0

\* item.remove()
RemoveAt(dom, i) == [j \in 1..(Len(dom) - 1) |-> IF j < i THEN dom[j] ELSE dom[j + 1]]

\* notificationId in the request path: the decimal digits of the id
RECURSIVE toString(_)
toString(n) ==
    LET d == CHOOSE c \in DOMAIN DigitVal : DigitVal[c] = n % 10
    IN  IF n < 10 THEN <<d>> ELSE Append(toString(n \div 10), d)

\* a loadNotifications call suspended at its fetch
Load(silent, phase, list, count) ==
    [silent |-> silent, phase |-> phase, notifications |-> list, count |-> count]

\* a dismissNotification call suspended at its fetch or at its timer; attached
\* tells whether the item it holds is still a child of the list element
Dismissal(id, attached, phase, slot, status) ==
    [id |-> id, attached |-> attached, phase |-> phase, slot |-> slot,
     status |-> status]

\* no panel on any page
Unmounted ==
    /\ isOpen = FALSE
    /\ attrs = Closed
    /\ notifications = <<>>
    /\ display = Hidden
    /\ badge = NoBadge
    /\ items = <<>>
    /\ loads = EmptyBag
    /\ dismissals = EmptyBag
    /\ removed = {}

-----------------------------------------------------------------------------
(* The system *)

\* the table as seeded by db/seed.ts, nothing in flight
Init ==
    /\ store = SeedNotifications
    /\ req = [s \in Slots |-> Idle]
    /\ resp = Blank
    /\ now = SeedNow + 1
    /\ calls = 0
    /\ acked = {}
    /\ Unmounted

Next ==
    \/ \E q \in ListQueries : List(q.userId, q.role) /\ UNCHANGED cvars
    \/ \E s \in Slots, d \in DismissRequests :
          DismissCall(s, d.param, d.userId) /\ UNCHANGED cvars
    \/ \E s \in Slots : DismissUpdate(s) /\ UNCHANGED cvars
    \/ \E s \in Slots, b \in CreateBodies :
          CreateCall(s, b.title, b.message, b.role, b.userId, b.currentUserRole)
              /\ UNCHANGED cvars
    \/ \E s \in Slots, d \in {now, now + 1} : CreateInsert(s, d) /\ UNCHANGED cvars

\* the table as created by the schema of db/config.ts, before any seed
InitEmpty ==
    /\ store = <<>>
    /\ req = [s \in Slots |-> Idle]
    /\ resp = Blank
    /\ now = SeedNow + 1
    /\ calls = 0
    /\ acked = {}
    /\ Unmounted

SpecEmpty == InitEmpty /\ [][Next]_vars

-----------------------------------------------------------------------------
(* Storage failures: a store statement that throws has no effect on the table;
   the handler's catch answers *)

\* GET: the select throws
ListFail(userId, userRole) ==
    /\ userId # "" /\ userRole # ""
    /\ resp' = GetCatch
    /\ UNCHANGED <<store, req, now, calls, acked>>

\* dismiss: the select throws, after the validation has passed
DismissSelectFail(s, param, userId) ==
    LET nid == NotificationIdOf(param)
    IN  /\ FreeSlot(s)
        /\ ~FalsyId(nid) /\ userId # ""
        /\ resp' = [DismissCatch("call", nid.val, userId) EXCEPT !.param = param]
        /\ UNCHANGED <<store, req, now, calls, acked>>

\* dismiss: the update throws
DismissUpdateFail(s) ==
    LET r == req[s]
    IN  /\ r.op = "dismiss"
        /\ req' = [req EXCEPT ![s] = Idle]
        /\ resp' = [DismissCatch("update", r.id, r.userId) EXCEPT !.wasIn = r.wasIn]
        /\ UNCHANGED <<store, now, calls, acked>>

\* create: SELECT MAX(id) throws, after authorization and validation have passed
CreateMaxIdFail(s, title, message, role, userId, currentUserRole) ==
    /\ FreeSlot(s)
    /\ CreateStatus(title, message, role, currentUserRole) = 0
    /\ resp' = [CreateCatch("call") EXCEPT
                   !.body = Body(title, message, role, userId, currentUserRole)]
    /\ UNCHANGED <<store, req, now, calls, acked>>

\* create: the insert throws
CreateInsertFail(s, date) ==
    LET r == req[s]
    IN  /\ r.op = "create"
        /\ date \in {now, now + 1}
        /\ now' = date
        /\ req' = [req EXCEPT ![s] = Idle]
        /\ resp' = [CreateCatch("insert") EXCEPT !.id = r.id]
        /\ UNCHANGED <<store, calls, acked>>

NextFail ==
    \/ Next
    \/ \E q \in ListQueries : ListFail(q.userId, q.role) /\ UNCHANGED cvars
    \/ \E s \in Slots, d \in DismissRequests :
          DismissSelectFail(s, d.param, d.userId) /\ UNCHANGED cvars
    \/ \E s \in Slots : DismissUpdateFail(s) /\ UNCHANGED cvars
    \/ \E s \in Slots, b \in CreateBodies :
          CreateMaxIdFail(s, b.title, b.message, b.role, b.userId, b.currentUserRole)
              /\ UNCHANGED cvars
    \/ \E s \in Slots, d \in {now, now + 1} : CreateInsertFail(s, d) /\ UNCHANGED cvars

\* the handlers on a store whose statements may fail
SpecFail == Init /\ [][NextFail]_vars

Spec == Init /\ [][Next]_vars

-----------------------------------------------------------------------------
(* NotificationPanel: event listeners, timers and fetches.  A method runs
   atomically up to its await; a fetch is a request that reaches the server
   handler, and a response that reaches the script some time later, in any
   order with the other responses.  A step of the script alone records in
   resp which listener, continuation or timer callback ran *)

\* the calls of the script that are suspended
Pending == BagCardinality(loads) + BagCardinality(dismissals)

\* what a step of the script alone leaves in resp
Did(step, id, status) ==
    [Blank EXCEPT !.op = "panel", !.step = step, !.id = id, !.status = status]

Others(B, x) == B (-) SetToBag({x})
With(B, x) == B (+) SetToBag({x})

\* the bell's click listener
BellClick ==
    /\ isOpen' = togglePanel(isOpen).isOpen
    /\ attrs' = togglePanel(isOpen).attrs
    /\ resp' = Did("bellClick", 0, 0)
    /\ UNCHANGED <<store, req, now, calls, acked, notifications,
                   display, badge, items, loads, dismissals, removed>>

\* the close button's click listener
CloseButtonClick ==
    /\ isOpen' = closePanel.isOpen
    /\ attrs' = closePanel.attrs
    /\ resp' = Did("closeClick", 0, 0)
    /\ UNCHANGED <<store, req, now, calls, acked, notifications,
                   display, badge, items, loads, dismissals, removed>>

\* the overlay's click listener
OverlayClick ==
    /\ isOpen' = closePanel.isOpen
    /\ attrs' = closePanel.attrs
    /\ resp' = Did("overlayClick", 0, 0)
    /\ UNCHANGED <<store, req, now, calls, acked, notifications,
                   display, badge, items, loads, dismissals, removed>>

Keys == {"Escape", "Tab"}

\* the document's keydown listener
KeyDown(key) ==
    /\ isOpen' = onKeydown(key, isOpen, attrs).isOpen
    /\ attrs' = onKeydown(key, isOpen, attrs).attrs
    /\ resp' = Did(IF key = "Escape" THEN "escape" ELSE "keydown", 0, 0)
    /\ UNCHANGED <<store, req, now, calls, acked, notifications,
                   display, badge, items, loads, dismissals, removed>>

\* loadNotifications(silent) up to its fetch, and the GET handler that takes
\* the request: it answers 200 with the body, or 500 when its select throws.
\* The handler reads the table in one statement and writes nothing, so the
\* request is taken to be served as it is sent; the response travels on its own
loadNotifications(silent, ok) ==
    /\ Pending < MaxPending
    /\ display' = IF silent THEN display ELSE showState("loading")
    /\ IF ok
       THEN /\ List(ClientUserId, ClientUserRole)
            /\ loads' = With(loads, Load(silent, "ok", resp'.notifications, resp'.count))
       ELSE /\ ListFail(ClientUserId, ClientUserRole)
            /\ loads' = With(loads, Load(silent, "failed", <<>>, 0))
    /\ UNCHANGED <<isOpen, attrs, notifications, badge, items, dismissals, removed>>

\* the setInterval callback
PollTick(ok) == loadNotifications(TRUE, ok)

\* the retry button's click listener; the button is part of the error state
RetryClick(ok) ==
    /\ display.error # "none"
    /\ loadNotifications(FALSE, ok)

\* every dismissNotification call loses its item: the list element got new children
Detached(B) ==
    LET off(d) == [d EXCEPT !.attached = FALSE]
        on(d) == [d EXCEPT !.attached = TRUE]
    IN  [e \in {off(d) : d \in BagToSet(B)} |->
            (IF e \in BagToSet(B) THEN B[e] ELSE 0)
                + (IF on(e) \in BagToSet(B) THEN B[on(e)] ELSE 0)]

\* loadNotifications after its fetch, response.ok: the list, the badge, the
\* state shown, and whether renderNotifications runs
loaded(list, count) ==
    [notifications |-> list, badge |-> updateBadge(count),
     display |-> showState(IF Len(list) = 0 THEN "empty" ELSE "list"),
     render |-> Len(list) # 0]

LoadResolve(l) ==
    /\ l \in BagToSet(loads)
    /\ l.phase = "ok"
    /\ notifications' = loaded(l.notifications, l.count).notifications
    /\ badge' = loaded(l.notifications, l.count).badge
    /\ display' = loaded(l.notifications, l.count).display
    /\ IF loaded(l.notifications, l.count).render
       THEN /\ items' = renderNotifications(notifications')
            /\ dismissals' = Detached(dismissals)
       ELSE UNCHANGED <<items, dismissals, removed>>
    /\ loads' = Others(loads, l)
    /\ resp' = Did(IF l.silent THEN "pollResolve" ELSE "loadResolve", 0, 200)
    /\ UNCHANGED <<store, req, now, calls, acked, isOpen, attrs, removed>>

\* loadCatch without its test of silent
loadCatch_Always(silent, shown) == showState("error")

\* the catch of loadNotifications: the error state unless the load is silent
loadCatch(silent, shown) == IF ~silent THEN showState("error") ELSE shown

\* loadNotifications after its fetch, !response.ok
LoadReject(l) ==
    /\ l \in BagToSet(loads)
    /\ l.phase = "failed"
    /\ display' = loadCatch(l.silent, display)
    /\ loads' = Others(loads, l)
    /\ resp' = Did(IF l.silent THEN "pollReject" ELSE "loadReject", 0, 500)
    /\ UNCHANGED <<store, req, now, calls, acked, isOpen,
                   attrs, notifications, badge, items, dismissals, removed>>

\* response.ok
Ok(status) == status \in 200..299

\* the item a dismissNotification call with this id holds, once it is no
\* longer a child of the list element
Dropped(B, id) ==
    LET off(d) == IF d.id = id THEN [d EXCEPT !.attached = FALSE] ELSE d
    IN  [e \in {off(d) : d \in BagToSet(B)} |->
            (IF e \in BagToSet(B) THEN B[e] ELSE 0)
                + (IF e.id = id /\ [e EXCEPT !.attached = TRUE] \in BagToSet(B)
                   THEN B[[e EXCEPT !.attached = TRUE]] ELSE 0)]

\* a dismiss button's click listener: dismissNotification(id) up to its fetch,
\* and the dismiss handler up to its update (or its answer, when it has one at
\* once, or a 500 when its select throws); the handler's first step reads the
\* table only.  A hidden list and a disabled button take no clicks
DismissClick(i, s, ok) ==
    /\ display.list # "none"
    /\ i \in 1..Len(items)
    /\ ~items[i].disabled
    /\ Pending < MaxPending
    /\ LET id == items[i].id
           k == querySelector(items, id)
       IN  /\ items' = [items EXCEPT ![k] = [@ EXCEPT !.disabled = TRUE,
                                                      !.dismissing = TRUE]]
           /\ IF ok
              THEN DismissCall(s, toString(id), ClientUserId)
              ELSE DismissSelectFail(s, toString(id), ClientUserId)
           /\ dismissals' =
                 With(dismissals,
                      IF resp'.status = 0
                      THEN Dismissal(id, TRUE, "server", s, 0)
                      ELSE Dismissal(id, TRUE, "answered", 0, resp'.status))
    /\ UNCHANGED <<isOpen, attrs, notifications, display, badge, loads, removed>>

\* the dismiss handler's update and its 200
ServeUpdate(d) ==
    /\ d \in BagToSet(dismissals)
    /\ d.phase = "server"
    /\ DismissUpdate(d.slot)
    /\ dismissals' = With(Others(dismissals, d),
                          [d EXCEPT !.phase = "answered", !.slot = 0,
                                    !.status = resp'.status])
    /\ UNCHANGED <<isOpen, attrs, notifications, display, badge, items, loads, removed>>

\* the dismiss handler's update throws: 500
ServeUpdateFail(d) ==
    /\ d \in BagToSet(dismissals)
    /\ d.phase = "server"
    /\ DismissUpdateFail(d.slot)
    /\ dismissals' = With(Others(dismissals, d),
                          [d EXCEPT !.phase = "answered", !.slot = 0,
                                    !.status = resp'.status])
    /\ UNCHANGED <<isOpen, attrs, notifications, display, badge, items, loads, removed>>

\* dismissNotification after its fetch, response.ok: setTimeout(..., 300)
DismissResolve(d) ==
    /\ d \in BagToSet(dismissals)
    /\ d.phase = "answered"
    /\ Ok(d.status)
    /\ dismissals' = With(Others(dismissals, d), [d EXCEPT !.phase = "timer"])
    /\ resp' = Did("dismissResolve", d.id, d.status)
    /\ UNCHANGED <<store, req, now, calls, acked, isOpen,
                   attrs, notifications, display, badge, items, loads, removed>>

\* dismissCatch that leaves the item as it is
dismissCatch_Nothing(dom, id) == dom

\* the catch of dismissNotification: the item found by a new querySelector gets
\* its button enabled and loses the dismissing class
dismissCatch(dom, id) ==
    LET k == querySelector(dom, id)
    IN  IF k = 0 THEN dom
        ELSE [dom EXCEPT ![k] = [@ EXCEPT !.disabled = FALSE, !.dismissing = FALSE]]

\* dismissNotification after its fetch, !response.ok
DismissReject(d) ==
    /\ d \in BagToSet(dismissals)
    /\ d.phase = "answered"
    /\ ~Ok(d.status)
    /\ items' = dismissCatch(items, d.id)
    /\ dismissals' = Others(dismissals, d)
    /\ resp' = Did("dismissReject", d.id, d.status)
    /\ UNCHANGED <<store, req, now, calls, acked, isOpen,
                   attrs, notifications, display, badge, loads, removed>>

\* this.notifications.filter((n) => n.id !== notificationId)
filterOut(list, id) == SelectSeq(list, LAMBDA n : n.id # id)

\* the timer callback, 300 ms after the 200: filter the list, update the badge,
\* then the empty state or item.remove()
RemovalTimer(d) ==
    /\ d \in BagToSet(dismissals)
    /\ d.phase = "timer"
    /\ notifications' = filterOut(notifications, d.id)
    /\ badge' = updateBadge(Len(notifications'))
    /\ IF Len(notifications') = 0
       THEN /\ display' = showState("empty")
            /\ items' = items
            /\ dismissals' = Others(dismissals, d)
       ELSE /\ display' = display
            /\ items' = IF d.attached
                        THEN RemoveAt(items, querySelector(items, d.id))
                        ELSE items
            /\ dismissals' = IF d.attached
                             THEN Dropped(Others(dismissals, d), d.id)
                             ELSE Others(dismissals, d)
    /\ resp' = Did("removalTimer", d.id, d.status)
    /\ removed' = removed \cup (Ids(notifications) \ Ids(notifications'))
    /\ UNCHANGED <<store, req, now, calls, acked, isOpen, attrs, loads>>

\* the page as the constructor leaves it: the panel closed, the loading state
\* shown, the initial load at its fetch with the answer of the GET handler on
\* its way; on the server the seeded table, where the user of the page has
\* dismissed the notification addressed to them
InitClient ==
    /\ store = UpdateDismissed(SeedNotifications, 4, <<ClientUserId>>)
    /\ req = [s \in Slots |-> Idle]
    /\ resp = Blank
    /\ now = SeedNow + 1
    /\ calls = 0
    /\ acked = {<<4, ClientUserId>>}
    /\ isOpen = FALSE
    /\ attrs = Closed
    /\ notifications = <<>>
    /\ display = showState("loading")
    /\ badge = NoBadge
    /\ items = <<>>
    /\ loads \in
          {SetToBag({Load(FALSE, "failed", <<>>, 0)})}
              \cup {SetToBag({Load(FALSE, "ok", ActiveNotifications(rows, ClientUserId),
                                   Len(ActiveNotifications(rows, ClientUserId)))}) :
                        rows \in OrderByCreatedAtDesc(
                                    Matching(store, ClientUserId, ClientUserRole))}
    /\ dismissals = EmptyBag
    /\ removed = {}

NextClient ==
    \/ BellClick
    \/ CloseButtonClick
    \/ OverlayClick
    \/ \E key \in Keys : KeyDown(key)
    \/ \E ok \in BOOLEAN : PollTick(ok)
    \/ \E ok \in BOOLEAN : RetryClick(ok)
    \/ \E l \in BagToSet(loads) : LoadResolve(l)
    \/ \E l \in BagToSet(loads) : LoadReject(l)
    \/ \E i \in 1..Len(items), s \in Slots, ok \in BOOLEAN : DismissClick(i, s, ok)
    \/ \E d \in BagToSet(dismissals) : ServeUpdate(d)
    \/ \E d \in BagToSet(dismissals) : ServeUpdateFail(d)
    \/ \E d \in BagToSet(dismissals) : DismissResolve(d)
    \/ \E d \in BagToSet(dismissals) : DismissReject(d)
    \/ \E d \in BagToSet(dismissals) : RemovalTimer(d)

\* one page with the panel, and the server behind it
SpecClient == InitClient /\ [][NextClient]_vars

\* the interval timer keeps firing and a poll's fetch succeeds again and again;
\* every response arrives, every timeout fires, and the server executes the
\* statement a handler waits for
Fairness ==
    /\ SF_vars(PollTick(TRUE))
    /\ \A silent \in BOOLEAN :
          WF_vars(\E l \in BagToSet(loads) :
                     l.silent = silent /\ (LoadResolve(l) \/ LoadReject(l)))
    /\ WF_vars(\E d \in BagToSet(dismissals) : ServeUpdate(d) \/ ServeUpdateFail(d))
    /\ WF_vars(\E d \in BagToSet(dismissals) : DismissResolve(d))
    /\ WF_vars(\E d \in BagToSet(dismissals) : DismissReject(d))
    /\ WF_vars(\E d \in BagToSet(dismissals) : RemovalTimer(d))

SpecClientFair == SpecClient /\ Fairness

-----------------------------------------------------------------------------
(* Properties *)

\* the users that have dismissed row n, as a set
DismissedSet(n) == Range(n.dismissed)

\* the visibility rule of the listing: role match, audience match, not dismissed
Visible(n, u, r) ==
    /\ (n.role = r \/ n.role = "all")
    /\ (n.userId = Null \/ n.userId = u)
    /\ u \notin DismissedSet(n)

Rows(table) == Range(table)

RowById(table, id) == CHOOSE n \in Rows(table) : n.id = id

\* the id sequences GET may answer for viewer (u, r) on a table
Listings(table, u, r) ==
    { [i \in 1..Len(rows) |-> rows[i].id] :
        rows \in { ActiveNotifications(sel, u) :
                     sel \in OrderByCreatedAtDesc(Matching(table, u, r)) } }

\* the step just taken answered a list request with 200
Listed == resp.op = "list" /\ resp.status = 200

(* C1: a 200 listing for viewer (u, r) holds exactly the stored notifications
   whose role is r or "all", whose userId is null or u, and that u has not
   dismissed: none missing, none extra, none twice. *)
C1_ListIsExactlyVisible ==
    Listed =>
        /\ Rows(resp.notifications) =
               {n \in Rows(store) : Visible(n, resp.userId, resp.role)}
        /\ Cardinality(Rows(resp.notifications)) = Len(resp.notifications)

\* a listing that keeps one row and leaves out one for each reason
C1_Witness ==
    /\ Listed
    /\ resp.notifications # <<>>
    /\ \E n \in Rows(store) : n.role \notin {resp.role, "all"}
    /\ \E n \in Rows(store) : n.role = resp.role /\ n.userId \notin {Null, resp.userId}
    /\ \E n \in Rows(store) :
          /\ n.role \in {resp.role, "all"}
          /\ n.userId \in {Null, resp.userId}
          /\ resp.userId \in DismissedSet(n)

(* C2: when the dismiss calls of two different users for the same notification
   have both been answered 200, the notification's dismissed list holds both
   users, however their select and update steps interleaved. *)
C2_BothDismissalsKept ==
    \A n \in Rows(store) : \A u1, u2 \in Users :
        (u1 # u2 /\ <<n.id, u1>> \in acked /\ <<n.id, u2>> \in acked)
            => {u1, u2} \subseteq DismissedSet(n)

\* the step just taken is the handler of dismiss(id, u) up to its second await
DismissCalled(id, u) ==
    resp'.op = "dismiss" /\ resp'.step = "call" /\ resp'.id = id /\ resp'.userId = u

(* C3: a dismiss(id, u) call made right after dismiss(id, u) was answered 200 is
   answered 200 with the current record and leaves the table as the first call
   left it, with no update pending. *)
C3_DismissIdempotent ==
    [][ (resp.op = "dismiss" /\ resp.status = 200 /\ DismissCalled(resp.id, resp.userId))
            => /\ resp'.status = 200
               /\ store' = store
               /\ req' = req
               /\ resp'.notification = RowById(store, resp.id) ]_vars

\* the second call has been answered: the user was in the list already
C3_Witness ==
    /\ resp.op = "dismiss" /\ resp.step = "call" /\ resp.status = 200
    /\ <<resp.id, resp.userId>> \in acked
    /\ resp.userId \in DismissedSet(RowById(store, resp.id))

(* C4: in every reachable state no dismissed list holds a user twice. *)
C4_NoDuplicateDismissal ==
    \A n \in Rows(store) : Cardinality(DismissedSet(n)) = Len(n.dismissed)

\* an update by a user the row it overwrote already listed: two calls of the
\* same user on the same notification ran concurrently and both wrote
C4_Witness ==
    /\ resp.op = "dismiss" /\ resp.step = "update"
    /\ resp.userId \in Range(resp.replaced)

(* C5: across every step the dismissed set of every notification only grows:
   its size never decreases and no user in it ever leaves it. *)
C5_DismissedMonotone ==
    [][ \A i \in 1..Len(store) :
            /\ i <= Len(store')
            /\ DismissedSet(store[i]) \subseteq DismissedSet(store'[i])
            /\ Cardinality(DismissedSet(store[i])) <=
                   Cardinality(DismissedSet(store'[i])) ]_vars

(* C6: once dismiss(id, u) has been answered 200, no later listing for u, with
   any role, contains notification id. *)
C6_DismissedStaysHidden ==
    Listed =>
        \A i \in 1..Len(resp.notifications) :
            <<resp.notifications[i].id, resp.userId>> \notin acked

(* C7: a dismiss by u1 answered 200 leaves the listing of every other viewer
   (u2, r) as it was before that step. *)
C7_DismissLeavesOthersListings ==
    [][ (resp'.op = "dismiss" /\ resp'.status = 200)
            => \A u2 \in Users \ {resp'.userId} : \A r \in validRoles :
                   Listings(store', u2, r) = Listings(store, u2, r) ]_vars

\* the number of handlers suspended at an await
InFlight(rq) == Cardinality({s \in Slots : rq[s] # Idle})

(* C8: a dismiss call executes exactly one update statement when the user was
   not in the dismissed set when the call read it (it suspends once, on that
   update, and is answered 200 after it), and none when the user was in it or
   when the call is answered with an error: those are answered at once, with
   the table untouched and nothing left pending. *)
C8_OneUpdateUnlessDismissed ==
    [][ resp'.op = "dismiss" =>
          /\ resp'.step = "call" => store' = store
          /\ resp'.status = 200 => resp'.updates = (IF resp'.wasIn THEN 0 ELSE 1)
          /\ (resp'.step = "call" /\ resp'.status # 0)
                => resp'.updates = 0 /\ req' = req
          /\ resp'.status = 0
                => ~resp'.wasIn /\ InFlight(req') = InFlight(req) + 1
          /\ resp'.step = "update"
                => resp'.updates = 1 /\ InFlight(req') = InFlight(req) - 1 ]_vars

\* both outcomes: an update by a user who was not in the set has been answered
\* while that user is in the set now
C8_Witness ==
    /\ resp.op = "dismiss" /\ resp.status = 200 /\ resp.updates = 1
    /\ ~resp.wasIn
    /\ resp.userId \in DismissedSet(RowById(store, resp.id))

(* C9: dismiss(id, u) with a well-formed id that no stored notification has is
   answered 404, writes nothing and schedules nothing, so every listing is as
   before. *)
C9_DismissMissingIsNotFound ==
    [][ (resp'.op = "dismiss" /\ resp'.step = "call" /\ resp'.status # 400
           /\ resp'.id \notin Ids(store))
            => /\ resp'.status = 404
               /\ store' = store
               /\ req' = req
               /\ \A u \in Users : \A r \in validRoles :
                      Listings(store', u, r) = Listings(store, u, r) ]_vars

C9_Witness ==
    /\ resp.op = "dismiss" /\ resp.status = 404
    /\ resp.id \notin Ids(store)
    /\ resp.id > 0

(* C10: a dismiss answered 200 changes nothing but the dismissed field of the
   notification it names: no row is added or removed, every row keeps its id,
   createdAt, title, message, role and userId, and every other row is unchanged. *)
C10_DismissChangesOnlyDismissed ==
    [][ (resp'.op = "dismiss" /\ resp'.status = 200)
            => /\ Len(store') = Len(store)
               /\ \A i \in 1..Len(store) :
                      /\ [store'[i] EXCEPT !.dismissed = store[i].dismissed] = store[i]
                      /\ store[i].id # resp'.id => store'[i] = store[i] ]_vars

\* an update has written the dismissed field of one row among several
C10_Witness ==
    /\ resp.op = "dismiss" /\ resp.step = "update" /\ resp.status = 200
    /\ Len(store) > 1
    /\ RowById(store, resp.id).dismissed # <<>>
    /\ \E n \in Rows(store) : n.id # resp.id /\ n.dismissed # <<>>

\* the step just taken is the create handler up to its second await
CreateCalled == resp'.op = "create" /\ resp'.step = "call"

\* the roles a notification may carry
RoleEnumeration == {"admin", "editor", "user", "all"}

(* C11: a create whose currentUserRole is not "admin" is answered 403 and
   leaves the table and the suspended handlers as they were, whatever its
   other fields are (missing or invalid ones included). *)
C11_NonAdminCreateForbidden ==
    [][ (CreateCalled /\ resp'.body.currentUserRole # "admin")
            => resp'.status = 403 /\ store' = store /\ req' = req ]_vars

\* a 403 for a body whose title and message are missing and whose role is unknown
C11_Witness ==
    /\ resp.op = "create" /\ resp.status = 403
    /\ resp.body.title = "" /\ resp.body.message = ""
    /\ resp.body.role \notin RoleEnumeration

(* C12: a create by an admin whose title, message or role is missing or empty,
   or whose role is not admin, editor, user or all, is answered 400 and leaves
   the table and the suspended handlers as they were. *)
C12_InvalidCreateRejected ==
    [][ (/\ CreateCalled
         /\ resp'.body.currentUserRole = "admin"
         /\ \/ resp'.body.title = ""
            \/ resp'.body.message = ""
            \/ resp'.body.role \notin RoleEnumeration)
            => resp'.status = 400 /\ store' = store /\ req' = req ]_vars

\* a 400 for an admin's body that lacks only its message
C12_Witness ==
    /\ resp.op = "create" /\ resp.status = 400
    /\ resp.body.currentUserRole = "admin"
    /\ resp.body.title # "" /\ resp.body.message = ""
    /\ resp.body.role \in RoleEnumeration

(* C13: every create by an admin with a title, a message and a valid role is
   answered 201 once its insert has run: the row it returns is in the table,
   with an empty dismissed list, also when several creates overlap. *)
C13_ValidCreateSucceeds ==
    (resp.op = "create" /\ resp.step = "insert")
        => /\ resp.status = 201
           /\ resp.notification \in Rows(store)
           /\ resp.notification.dismissed = <<>>

(* C14: a create answered 201 has appended one row whose id is the highest id
   of the table plus one, or 1 on an empty table; so from an empty table the
   first row created has id 1 and the next one id 2. *)
C14_IdIsHighestPlusOne ==
    [][ (resp'.op = "create" /\ resp'.status = 201)
            => LET id == resp'.notification.id
               IN  /\ store' = Append(store, resp'.notification)
                   /\ store = <<>> => id = 1
                   /\ store # <<>> =>
                          /\ \E n \in Rows(store) : id = n.id + 1
                          /\ \A n \in Rows(store) : n.id < id ]_vars

\* two rows created one after the other on the empty table
C14_Witness ==
    /\ resp.op = "create" /\ resp.status = 201
    /\ Len(store) = 2
    /\ store[1].id = 1 /\ store[2].id = store[1].id + 1

(* C15: in every reachable state no two notifications share an id, and a
   notification inserted later has a strictly larger id than every one
   inserted before it. *)
C15_IdsUniqueAndIncreasing ==
    \A i, j \in 1..Len(store) : i < j => store[i].id < store[j].id

\* two creates have added their rows to the seeded table
C15_Witness ==
    /\ Len(store) = Len(SeedNotifications) + 2
    /\ resp.op = "create" /\ resp.status = 201

(* C16: from the seed data on, every stored notification's role is admin,
   editor, user or all, and a create call with any other role is answered with
   an error at once, with no insert to follow. *)
C16_StoredRolesValid ==
    /\ \A n \in Rows(store) : n.role \in RoleEnumeration
    /\ (resp.op = "create" /\ resp.step = "call"
           /\ resp.body.role \notin RoleEnumeration)
          => resp.status \in {400, 403}
    /\ \A s \in Slots : req[s].op = "create" => req[s].role \in RoleEnumeration

\* an admin's create with an unknown role was rejected after a valid one added a row
C16_Witness ==
    /\ resp.op = "create" /\ resp.status = 400
    /\ resp.body.role = "guest"
    /\ Len(store) > Len(SeedNotifications)

\* the position of row n in the table: its insertion order
Position(n) == CHOOSE k \in 1..Len(store) : store[k] = n

\* the listing is ordered by createdAt, most recent first
ListedDescending ==
    \A i, j \in 1..Len(resp.notifications) :
        i < j => resp.notifications[i].createdAt >= resp.notifications[j].createdAt

\* notifications of equal createdAt are listed in insertion order
ListedTiesInInsertionOrder ==
    \A i, j \in 1..Len(resp.notifications) :
        (i < j /\ resp.notifications[i].createdAt = resp.notifications[j].createdAt)
            => Position(resp.notifications[i]) < Position(resp.notifications[j])

(* C17, as stated: a 200 listing is ordered by createdAt descending, and
   notifications of equal createdAt appear in insertion order. *)
C17_OrderedWithStableTies ==
    Listed => ListedDescending /\ ListedTiesInInsertionOrder

(* C17, amended: a 200 listing is ordered by createdAt descending; the order
   among notifications of equal createdAt is not fixed. *)
C17_OrderedByCreatedAtDesc ==
    Listed => ListedDescending

\* a listing with an older row after two rows of equal createdAt, which come
\* in the reverse of their insertion order
C17_Witness ==
    /\ Listed
    /\ ~ListedTiesInInsertionOrder
    /\ \E i, j \in 1..Len(resp.notifications) :
          resp.notifications[i].createdAt > resp.notifications[j].createdAt

(* C18: in a 200 listing, count is the length of the notifications sequence,
   which is the number of stored notifications visible to that viewer. *)
C18_CountIsLength ==
    Listed =>
        /\ resp.count = Len(resp.notifications)
        /\ resp.count =
               Cardinality({n \in Rows(store) : Visible(n, resp.userId, resp.role)})

\* a listing that counts some rows, fewer than the select matched
C18_Witness ==
    /\ Listed
    /\ resp.count > 0
    /\ \E n \in Rows(store) :
          /\ n.role \in {resp.role, "all"}
          /\ n.userId \in {Null, resp.userId}
          /\ resp.userId \in DismissedSet(n)

\* a route parameter that is not a decimal number: missing, or with a
\* character that is no digit
Malformed(param) == param = <<>> \/ \E i \in 1..Len(param) : ~IsDigit(param[i])

(* C19: a dismiss whose id parameter is absent or malformed, or whose userId
   is absent or empty, is answered 400 before any store statement: never 404,
   no update issued, the table unchanged. *)
C19_InvalidDismissRejected ==
    [][ (/\ resp'.op = "dismiss" /\ resp'.step = "call"
         /\ (Malformed(resp'.param) \/ resp'.userId = ""))
            => resp'.status = 400 /\ store' = store /\ req' = req ]_vars

(* C20: a step in which a store statement threw is answered 500, never as a
   success and never with a record or a listing; the table is as before the
   step and the handler is finished (nothing it started stays pending). *)
C20_StorageFailureIs500 ==
    [][ resp'.threw
            => /\ resp'.status = 500
               /\ ~resp'.success
               /\ resp'.notification = NoRow /\ resp'.notifications = <<>>
               /\ store' = store
               /\ InFlight(req') <= InFlight(req) ]_vars

\* the update of a dismiss threw and was answered 500; the user is not in the set
C20_Witness ==
    /\ resp.threw /\ resp.op = "dismiss" /\ resp.step = "update"
    /\ resp.status = 500
    /\ resp.userId \notin DismissedSet(RowById(store, resp.id))

-----------------------------------------------------------------------------
(* Properties of the client panel *)

\* the step just taken was this step of the script
Ran(step) == resp'.op = "panel" /\ resp'.step = step

\* the ids of the in-memory list
ListIds == Ids(notifications)

\* C21: when the fetch of a silent poll fails, the in-memory list, the badge
\* and the displayed state stay exactly as they were; the error state comes up
\* only when a non-silent load (the initial load or a retry) fails.
C21_SilentFailureKeepsView ==
    [][ /\ Ran("pollReject") => UNCHANGED <<notifications, badge, display, items>>
        /\ (display'.error # "none" /\ display.error = "none") => Ran("loadReject")
      ]_vars

\* a silent poll has just failed under a displayed, non-empty list
C21_Witness ==
    /\ resp.op = "panel" /\ resp.step = "pollReject"
    /\ display.list # "none"
    /\ Len(notifications) > 0
    /\ badge.count = Len(notifications)

\* the table holds the dismissal of notification id by the user of the page
Persisted(id) ==
    \E i \in 1..Len(store) : store[i].id = id /\ ClientUserId \in DismissedSet(store[i])

\* C22: once a dismissal by the user of the page is in the table to stay, a
\* panel that keeps polling, with fetches that succeed again and again, comes to
\* a point from which its in-memory list never holds that notification.
C22_EventuallyExcluded ==
    \A id \in Ids(SeedNotifications) :
        (<>[]Persisted(id)) => <>[](id \notin ListIds)

\* a poll has just taken a dismissed notification off the list, ahead of the
\* removal timer of the dismissal
C22_Witness ==
    /\ resp.op = "panel" /\ resp.step = "pollResolve"
    /\ \E d \in BagToSet(dismissals) :
          /\ d.phase \in {"answered", "timer"}
          /\ Persisted(d.id)
          /\ d.id \notin ListIds
          /\ Len(notifications) > 0

\* C23: a notification the removal timer has taken off the in-memory list
\* after a successful dismiss is not put back by any later completion of a
\* load or poll, whenever that poll was sent.
C23_RemovedStaysOut == \A id \in removed : id \notin ListIds

\* the ids of the items rendered in the list element
RenderedIds == {items[i].id : i \in 1..Len(items)}

\* C24: whenever the list state is displayed, between any two steps of the
\* script, the items rendered in the list are those of the in-memory list, under
\* every interleaving of polls, dismiss requests and the removal timer.
C24_RenderedIsList == display.list # "none" => RenderedIds = ListIds

\* what the badge reads for n notifications
BadgeText(n) == IF n > 99 THEN "99+" ELSE ToString(n)

\* C25: once updateBadge has run, that is after every completed load, poll or
\* dismiss removal, the count it was given is the length of the in-memory list
\* and the badge reads that number ("99+" above 99), under every interleaving.
C25_BadgeIsListLength ==
    badge # NoBadge =>
        /\ badge.count = Len(notifications)
        /\ badge.text = BadgeText(Len(notifications))
        /\ badge.unread = (Len(notifications) > 0)

\* the removal timer has just run while a load is on its way, and one
\* notification is left
C25_Witness ==
    /\ resp.op = "panel" /\ resp.step = "removalTimer"
    /\ loads # EmptyBag
    /\ Len(notifications) = 1
    /\ badge.text = "1"

\* the rendered item of notification id, when there is one, has its dismiss
\* button enabled and no dismissing class
Enabled(dom, id) ==
    \A i \in 1..Len(dom) : dom[i].id = id => ~dom[i].disabled /\ ~dom[i].dismissing

\* C26: dismissNotification takes a notification off the in-memory list only
\* after the server has answered its request with a success status; when the
\* request fails or is rejected, list and badge stay as they were and the item
\* gets its dismiss button enabled and its dismissing mark removed.
C26_RemoveOnlyAfterSuccess ==
    [][ /\ \A id \in ListIds \ ListIds' :
              \/ Ran("loadResolve")
              \/ Ran("pollResolve")
              \/ /\ Ran("removalTimer")
                 /\ resp'.id = id
                 /\ Ok(resp'.status)
                 /\ <<id, ClientUserId>> \in acked
        /\ Ran("dismissReject") =>
              /\ ~Ok(resp'.status)
              /\ UNCHANGED <<notifications, badge>>
              /\ Enabled(items', resp'.id)
      ]_vars

\* a dismiss request has just been answered 500 for an item that is rendered
\* and was disabled: it is enabled again and still on the list
C26_Witness ==
    /\ resp.op = "panel" /\ resp.step = "dismissReject" /\ resp.status = 500
    /\ display.list # "none"
    /\ resp.id \in ListIds
    /\ resp.id \in RenderedIds
    /\ Enabled(items, resp.id)
    /\ \A d \in BagToSet(dismissals) : d.id # resp.id

\* a non-silent load is suspended at its fetch
LoadingPending == \E l \in BagToSet(loads) : ~l.silent

\* a non-silent load has just completed and the loading view is gone
LoadingReplaced ==
    /\ resp.op = "panel" /\ resp.step \in {"loadResolve", "loadReject"}
    /\ Displayed \in {{"list"}, {"empty"}, {"error"}}

\* C27: from the first showState on, exactly one of the loading, error, empty
\* and list views is displayed; and every non-silent load, which shows the
\* loading view, replaces it by list, empty or error when its fetch has
\* completed or failed.
C27_OneViewAndLoadingEnds ==
    /\ [](Cardinality(Displayed) = 1)
    /\ (LoadingPending ~> LoadingReplaced)

\* a retry has just found every notification dismissed: the empty view, alone,
\* has replaced the loading view
C27_Witness ==
    /\ resp.op = "panel" /\ resp.step = "loadResolve"
    /\ Displayed = {"empty"}
    /\ removed # {}

\* isOpen agrees with the open class, the active class and aria-expanded
OpenAgrees ==
    /\ attrs.panel = isOpen
    /\ attrs.overlay = isOpen
    /\ (attrs.expanded = "true") = isOpen
    /\ attrs.expanded \in {"true", "false"}

\* C28: after any sequence of bell, close button and overlay clicks and Escape
\* presses, isOpen is true exactly when the panel has the open class, the
\* overlay has the active class and the bell's aria-expanded is "true"; a bell
\* click flips isOpen, and Escape on a closed panel changes nothing.
C28_OpenFlagMatchesDom ==
    /\ []OpenAgrees
    /\ [][ /\ Ran("bellClick") => isOpen' = ~isOpen
           /\ (Ran("escape") /\ ~isOpen) => UNCHANGED <<isOpen, attrs>>
           /\ (Ran("escape") /\ isOpen) => ~isOpen'
         ]_vars

\* a bell click has just opened the panel
C28_Witness ==
    /\ resp.op = "panel" /\ resp.step = "bellClick"
    /\ isOpen
    /\ attrs = [panel |-> TRUE, overlay |-> TRUE, expanded |-> "true"]

====
